---- MODULE Spec2Model ----
(***************************************************************************)
(* A model of cpio.py: the CPIO header codec (CpioEntry.from_fileobj and   *)
(* CpioEntry.to_fileobj), the member cursor (read / seek / tell), and the  *)
(* archive object CpioFile (scan on open, hardlink fix-up, close, and the  *)
(* other public methods).                                                  *)
(*                                                                         *)
(* A byte is a number in 0..255, a byte string a sequence of bytes, and a  *)
(* stream a byte string with a 0-based position.  Python's None is the     *)
(* number None (-1) where the attribute otherwise holds a number >= 0, and *)
(* the empty tuple where it otherwise holds a byte string (then the string *)
(* s is <<s>>).  The inode number is kept in two 16-bit limbs so that      *)
(* values of 2^32 and more, which Python ints hold, can be written.        *)
(***************************************************************************)
EXTENDS Integers, Sequences, FiniteSets, TLC

\* ----------------------------------------------------------------- bounds
\* The most records (the trailer not counted) an input archive holds.
MaxRecs == 2

\* -------------------------------------------------------------- constants
NEW_MAGIC == "070701"
CRC_MAGIC == "070702"
OLD_MAGIC == "070707"
\* 070707 octal, the first 16-bit word of an old binary header.
BIN_MAGIC == 29127
\* The format argument that selects the old binary format: the code passes
\* the number BIN_MAGIC itself; the model keeps format arguments strings.
BIN_FORMAT == "0o070707"
\* format=None, the default of CpioFile.__init__.
NO_FORMAT == "None"

None == -1

\* The bytes of the three ASCII magics.
Ascii(m) ==
    CASE m = NEW_MAGIC -> <<48, 55, 48, 55, 48, 49>>
      [] m = CRC_MAGIC -> <<48, 55, 48, 55, 48, 50>>
      [] m = OLD_MAGIC -> <<48, 55, 48, 55, 48, 55>>

\* 'TRAILER!!!'
TRAILER == <<84, 82, 65, 73, 76, 69, 82, 33, 33, 33>>
\* '.'
DOT == <<46>>

Min(a, b) == IF a < b THEN a ELSE b
Max(a, b) == IF a > b THEN a ELSE b

\* c repeated n times: ''.rjust(n, c)
Fill(n, c) == [i \in 1..n |-> c]

\* ---------------------------------------------------------- stat module
S_IFMT(mode) == ((mode \div 4096) % 16) * 4096
S_ISDIR(mode) == S_IFMT(mode) = 16384
S_ISREG(mode) == S_IFMT(mode) = 32768
S_ISLNK(mode) == S_IFMT(mode) = 40960

\* ------------------------------------------------------------ os module
\* os.makedev, os.major, os.minor (glibc), for majors below 2^12 and minors
\* below 2^20: the bits above them do not fit the model's integers.
makedev(ma, mi) == (ma % 4096) * 256 + (mi % 256) + (mi \div 256) * 1048576
major(dev) == (dev \div 256) % 4096
minor(dev) == (dev % 256) + ((dev \div 1048576) * 256)

\* ------------------------------------------------------------- integers
\* A Python int n >= 0 as two limbs: n = hi * 65536 + lo, 0 <= lo < 65536.
Big(n) == [hi |-> n \div 65536, lo |-> n % 65536]
BigDiv(x, b) ==
    LET r == (x.hi % b) * 65536 + x.lo
    IN  [hi |-> x.hi \div b, lo |-> r \div b]
BigMod(x, b) == ((x.hi % b) * 65536 + x.lo) % b
\* x * b + d
BigMulAdd(x, b, d) ==
    LET l == x.lo * b + d
    IN  [hi |-> x.hi * b + (l \div 65536), lo |-> l % 65536]
Small(x) == x.hi * 65536 + x.lo

\* The character of digit d, lower case: '0'..'9', 'a'..'f'.
DigitChar(d) == IF d < 10 THEN 48 + d ELSE 87 + d
\* The digit of character c in `base`, or None.
CharDigit(c, base) ==
    LET d == IF c >= 48 /\ c <= 57 THEN c - 48
             ELSE IF c >= 97 /\ c <= 102 THEN c - 87
             ELSE IF c >= 65 /\ c <= 70 THEN c - 55
             ELSE None
    IN  IF d # None /\ d < base THEN d ELSE None

RECURSIVE BigDigits(_, _)
BigDigits(x, base) ==
    IF x.hi = 0 /\ x.lo < base
    THEN <<DigitChar(x.lo)>>
    ELSE BigDigits(BigDiv(x, base), base) \o <<DigitChar(BigMod(x, base))>>

\* '{:0>WIDTHx}'.format(x) and '{:0>WIDTHo}'.format(x): the digits of x,
\* right-aligned in `width` columns filled with '0'; the width is a minimum,
\* a longer number is written in full.
FormatBig(x, width, base) ==
    LET d == BigDigits(x, base)
    IN  Fill(Max(0, width - Len(d)), 48) \o d
Format(n, width, base) == FormatBig(Big(n), width, base)

\* int(s, base) of a field of digits: [ok, v], v the number, ok FALSE for
\* ValueError.  (Sign, blanks and a 0x prefix, which int() also accepts, are
\* not digits here: no stream of the model holds them.)  The number is built
\* in two parts, the last 4 hex or 5 octal digits and the ones before them.
RECURSIVE IntFrom(_, _, _, _, _)
IntFrom(s, base, i, j, acc) ==
    IF i > j THEN acc
    ELSE IntFrom(s, base, i + 1, j, acc * base + CharDigit(s[i], base))
IntBig(s, base) ==
    LET limb == IF base = 16 THEN 65536 ELSE 32768
        cut  == Max(0, Len(s) - (IF base = 16 THEN 4 ELSE 5))
        H    == IntFrom(s, base, 1, cut, 0)
        L    == IntFrom(s, base, cut + 1, Len(s), 0)
        r    == 65536 \div limb
    IN  IF Len(s) = 0 \/ \E i \in 1..Len(s) : CharDigit(s[i], base) = None
        THEN [ok |-> FALSE, v |-> Big(0)]
        ELSE [ok |-> TRUE, v |-> [hi |-> H \div r, lo |-> (H % r) * limb + L]]

\* struct.pack('<H', v) / struct.pack('>H', v)
PackH(v, order) ==
    IF order = "<" THEN <<v % 256, v \div 256>> ELSE <<v \div 256, v % 256>>
\* struct.unpack('<H', b)[0] / struct.unpack('>H', b)[0], Len(b) = 2
UnpackH(b, order) ==
    IF order = "<" THEN b[1] + 256 * b[2] ELSE 256 * b[1] + b[2]

\* ------------------------------------------------------------ checksum32
\* The next value of a 32-bit unsigned running sum: (x + byte) & 0xFFFFFFFF.
Add32(x, byte) ==
    LET l == x.lo + byte
    IN  [hi |-> (x.hi + (l \div 65536)) % 65536, lo |-> l % 65536]

RECURSIVE Sum32(_, _, _)
Sum32(bytes, i, acc) ==
    IF i > Len(bytes) THEN acc ELSE Sum32(bytes, i + 1, Add32(acc, bytes[i]))

\* A faulty sum that leaves the first byte out (C3 must tell it apart).
checksum32_tail(bytes) == Sum32(bytes, 2, Big(0))

\* checksum32, lines 112-114: the sum of the bytes, modulo 2^32.
checksum32(bytes) == Sum32(bytes, 1, Big(0))

\* ------------------------------------------------------------- CpioEntry
NoneBig == [hi |-> None, lo |-> None]

\* CpioEntry.__init__: the attributes of a fresh entry.
CpioEntry ==
    [dev |-> 0, ino |-> Big(0), mode |-> 0, uid |-> 0, gid |-> 0, nlink |-> 0,
     mtime |-> 0, rdev |-> 0, size |-> 0, check |-> NoneBig, target |-> <<>>,
     name |-> TRAILER, filepos |-> None, position |-> 0]

\* fileobj.read(n) at position pos (0-based), n >= 0: what is left, at most n.
Read(s, pos, n) == SubSeq(s, pos + 1, Min(pos + n, Len(s)))

\* s[:stop]
SliceTo(s, stop) ==
    IF stop < 0 THEN SubSeq(s, 1, Max(0, Len(s) + stop))
    ELSE SubSeq(s, 1, Min(stop, Len(s)))

Raise(status, arg, e, pos) ==
    [status |-> status, arg |-> arg, e |-> e, pos |-> pos]

\* from_fileobj, lines 265-276: the name, then the data of a regular file
\* (checked against the header's sum in the New CRC format) or the target of a
\* symbolic link.  The data of any other type is not read.
ReadNameAndData(s, pos, e0, namesize, hpad, dpad, iscrc) ==
    LET raw  == Read(s, pos, namesize + hpad)
        e1   == [e0 EXCEPT !.name = SliceTo(raw, namesize - 1)]
        p1   == pos + Len(raw)
        rd   == Read(s, p1, e1.size + dpad)
        data == SliceTo(rd, e1.size)
        p2   == p1 + Len(rd)
    IN  IF S_ISREG(e1.mode)
        THEN IF iscrc /\ e1.check # checksum32(data)
             THEN Raise("ChecksumError", e1.name, [e1 EXCEPT !.filepos = p1], p2)
             ELSE Raise("ok", <<>>, [e1 EXCEPT !.filepos = p1], p2)
        ELSE IF S_ISLNK(e1.mode)
        THEN Raise("ok", <<>>, [e1 EXCEPT !.target = <<data>>], p2)
        ELSE Raise("ok", <<>>, e1, p1)

\* from_fileobj, lines 218-233: the fields of a New ASCII / New CRC header.
DecodeNew(s, pos, e0, hdr) ==
    LET F(k) == IntBig(SubSeq(hdr, 8 * k - 1, 8 * k + 6), 16)
        Rest(e, namesize) ==
            ReadNameAndData(s, pos, e, namesize,
                            (4 - ((110 + namesize) % 4)) % 4,
                            (4 - (e.size % 4)) % 4,
                            SubSeq(hdr, 1, 6) = Ascii(CRC_MAGIC))
        Fields(f) ==
            IF \E k \in 1..13 : ~f[k].ok
            THEN Raise("ValueError", <<>>, e0, pos)
            ELSE Rest([e0 EXCEPT !.ino = f[1].v,
                                 !.mode = Small(f[2].v),
                                 !.uid = Small(f[3].v),
                                 !.gid = Small(f[4].v),
                                 !.nlink = Small(f[5].v),
                                 !.mtime = Small(f[6].v),
                                 !.size = Small(f[7].v),
                                 !.dev = makedev(Small(f[8].v), Small(f[9].v)),
                                 !.rdev = makedev(Small(f[10].v),
                                                  Small(f[11].v)),
                                 !.check = f[13].v],
                      Small(f[12].v))
    IN  Fields(<<F(1), F(2), F(3), F(4), F(5), F(6), F(7), F(8), F(9), F(10),
                 F(11), F(12), F(13)>>)

\* from_fileobj, lines 234-247: the fields of an Old ASCII header.
DecodeOld(s, pos, e0, hdr) ==
    LET w == <<6, 6, 6, 6, 6, 6, 6, 11, 6, 11>>
        at == <<6, 12, 18, 24, 30, 36, 42, 48, 59, 65>>
        F(k) == IntBig(SubSeq(hdr, at[k] + 1, at[k] + w[k]), 8)
        Fields(f) ==
            IF \E k \in 1..10 : ~f[k].ok
            THEN Raise("ValueError", <<>>, e0, pos)
            ELSE ReadNameAndData(s, pos,
                                 [e0 EXCEPT !.dev = Small(f[1].v),
                                            !.ino = f[2].v,
                                            !.mode = Small(f[3].v),
                                            !.uid = Small(f[4].v),
                                            !.gid = Small(f[5].v),
                                            !.nlink = Small(f[6].v),
                                            !.rdev = Small(f[7].v),
                                            !.mtime = Small(f[8].v),
                                            !.size = Small(f[10].v)],
                                 Small(f[9].v), 0, 0, FALSE)
    IN  Fields(<<F(1), F(2), F(3), F(4), F(5), F(6), F(7), F(8), F(9), F(10)>>)

\* from_fileobj, lines 248-263: the words of an Old Binary header.
DecodeBin(s, pos, e0, hdr, order) ==
    LET H(k) == UnpackH(SubSeq(hdr, 2 * k - 1, 2 * k), order)
        Rest(e, namesize) ==
            ReadNameAndData(s, pos, e, namesize,
                            (2 - ((26 + namesize) % 2)) % 2,
                            (2 - (e.size % 2)) % 2, FALSE)
        Words(h) ==
            Rest([e0 EXCEPT !.dev = h[2], !.ino = Big(h[3]), !.mode = h[4],
                            !.uid = h[5], !.gid = h[6], !.nlink = h[7],
                            !.rdev = h[8], !.mtime = h[9] * 65536 + h[10],
                            !.size = h[12] * 65536 + h[13]],
                 h[11])
    IN  Words(<<H(1), H(2), H(3), H(4), H(5), H(6), H(7), H(8), H(9), H(10),
                H(11), H(12), H(13)>>)

\* CpioEntry.from_fileobj on a fresh entry, the stream s at position pos:
\* [status, arg, e, pos], status "ok" or the exception raised (arg: what it
\* carries), e the entry and pos the stream position afterwards.
\* struct.unpack raises struct.error when the bytes it is given are not
\* exactly as many as its format names.
from_fileobj(s, pos) ==
    LET e0   == CpioEntry
        buf  == Read(s, pos, 6)
        p0   == pos + Len(buf)
        rest(n) == Read(s, p0, n)
    IN  IF buf \in {Ascii(NEW_MAGIC), Ascii(CRC_MAGIC)}
        THEN IF Len(rest(104)) # 104
             THEN Raise("struct.error", <<>>, e0, p0 + Len(rest(104)))
             ELSE DecodeNew(s, p0 + 104, e0, buf \o rest(104))
        ELSE IF buf = Ascii(OLD_MAGIC)
        THEN IF Len(rest(70)) # 70
             THEN Raise("struct.error", <<>>, e0, p0 + Len(rest(70)))
             ELSE DecodeOld(s, p0 + 70, e0, buf \o rest(70))
        ELSE IF Len(buf) < 2
        THEN Raise("struct.error", <<>>, e0, p0)
        ELSE IF UnpackH(SubSeq(buf, 1, 2), "<") = BIN_MAGIC
        THEN IF Len(buf) + Len(rest(20)) # 26
             THEN Raise("struct.error", <<>>, e0, p0 + Len(rest(20)))
             ELSE DecodeBin(s, p0 + 20, e0, buf \o rest(20), "<")
        ELSE IF UnpackH(SubSeq(buf, 1, 2), ">") = BIN_MAGIC
        THEN IF Len(buf) + Len(rest(20)) # 26
             THEN Raise("struct.error", <<>>, e0, p0 + Len(rest(20)))
             ELSE DecodeBin(s, p0 + 20, e0, buf \o rest(20), ">")
        ELSE Raise("HeaderError", <<>>, e0, p0)

\* CpioEntry.to_fileobj(format, data) of entry e, on a build whose native
\* byte order is `order`: [status, head, body], head the bytes written for
\* header + name + NUL + header padding, body those written for data + data
\* padding, status "ok" or the exception raised (then nothing was written by
\* the failing write).  data = None and data = '' are both <<>>.
\* A field that has more digits than its width is written in full; a check
\* of None cannot be formatted; struct.pack takes words in 0..65535 only.
to_fileobj(e, format, data, order) ==
    LET len  == Len(e.name)
        body(dpad) == IF Len(data) > 0 THEN data \o Fill(dpad, 0) ELSE <<>>
        Out(status, head, b) == [status |-> status, head |-> head, body |-> b]
    IN  IF format \in {NEW_MAGIC, CRC_MAGIC}
        THEN LET hpad == (4 - ((111 + len) % 4)) % 4
                 dpad == (4 - (e.size % 4)) % 4
             IN  IF e.check = NoneBig
                 THEN Out("ValueError", <<>>, <<>>)
                 ELSE Out("ok",
                          Ascii(format)
                          \o FormatBig(e.ino, 8, 16)
                          \o Format(e.mode, 8, 16)
                          \o Format(e.uid, 8, 16)
                          \o Format(e.gid, 8, 16)
                          \o Format(e.nlink, 8, 16)
                          \o Format(e.mtime, 8, 16)
                          \o Format(e.size, 8, 16)
                          \o Format(major(e.dev), 8, 16)
                          \o Format(minor(e.dev), 8, 16)
                          \o Format(major(e.rdev), 8, 16)
                          \o Format(minor(e.rdev), 8, 16)
                          \o Format(len + 1, 8, 16)
                          \o FormatBig(e.check, 8, 16)
                          \o e.name \o <<0>> \o Fill(hpad, 0),
                          body(dpad))
        ELSE IF format = OLD_MAGIC
        THEN Out("ok",
                 Ascii(format)
                 \o Format(e.dev, 6, 8)
                 \o FormatBig(e.ino, 6, 8)
                 \o Format(e.mode, 6, 8)
                 \o Format(e.uid, 6, 8)
                 \o Format(e.gid, 6, 8)
                 \o Format(e.nlink, 6, 8)
                 \o Format(e.rdev, 6, 8)
                 \o Format(e.mtime, 11, 8)
                 \o Format(len + 1, 6, 8)
                 \o Format(e.size, 11, 8)
                 \o e.name \o <<0>>,
                 body(0))
        ELSE IF format = BIN_FORMAT
        THEN LET hpad == (2 - ((27 + len) % 2)) % 2
                 dpad == (2 - (e.size % 2)) % 2
                 words == <<BIN_MAGIC, e.dev, Small(e.ino), e.mode, e.uid,
                            e.gid, e.nlink, e.rdev, e.mtime \div 65536,
                            e.mtime % 65536, len + 1, e.size \div 65536,
                            e.size % 65536>>
                 packed == [k \in 1..26 |->
                               PackH(words[(k + 1) \div 2], order)[2 - (k % 2)]]
             IN  IF e.ino.hi > 0 \/ \E k \in 1..13 : words[k] > 65535
                 THEN Out("struct.error", <<>>, <<>>)
                 ELSE Out("ok", packed \o e.name \o <<0>> \o Fill(hpad, 0),
                          body(dpad))
        ELSE IF Len(data) > 0
        THEN Out("UnboundLocalError", <<>>, <<>>)
        ELSE Out("ok", <<>>, <<>>)

\* --------------------------------------------------------------- CpioFile
VARIABLES
    stream,   \* the bytes of the backing file object
    fpos,     \* the backing file object's position (0-based)
    mode,     \* 'rb' or 'wb': how the backing file object was opened
    format,   \* CpioFile.format, the caller's format argument
    fileobj,  \* CpioFile.fileobj: "open", or "None" once close() released it
    members,  \* CpioFile._members, each a CpioEntry
    pc,       \* "scan" while __init__ reads, "open" once it returned,
              \* "failed" once it raised
    last,     \* the last call: its name, arguments, result or exception
    input,    \* what the run was given (never read by the program)
    asked,    \* the paths CpioFile.write was called with, in call order
    disk      \* what extract made under the destination directory

vars ==
    <<stream, fpos, mode, format, fileobj, members, pc, last, input, asked,
      disk>>

\* A call's record.  status is "ok" or the exception raised, arg what the
\* exception carries, m the member the call was on (0: none), n its integer
\* argument, whence its second one, ret its integer result, data its
\* byte-string result, was the value of CpioFile.fileobj when the call began.
Result(op, status, arg, m, n, whence, ret, data) ==
    [op |-> op, status |-> status, arg |-> arg, m |-> m, n |-> n,
     whence |-> whence, ret |-> ret, data |-> data, was |-> fileobj]
Call(op, status, arg, m, n, ret, data) ==
    Result(op, status, arg, m, n, 0, ret, data)

\* _fix_hardlinks, lines 473-474
islink(e) == e.nlink > 1 /\ ~S_ISDIR(e.mode)
hasdata(e) == islink(e) /\ e.size > 0

\* [member for member in self if hasdata(member)], as indices into _members
WithData(ms) ==
    SelectSeq([i \in 1..Len(ms) |-> i], LAMBDA i : hasdata(ms[i]))
WithoutData(ms) ==
    SelectSeq([i \in 1..Len(ms) |-> i], LAMBDA i : ~hasdata(ms[i]))

\* The inner loop of _fix_hardlinks, lines 477-481, from the k-th link on.
RECURSIVE FixLinks(_, _, _, _)
FixLinks(ms, inode, links, k) ==
    IF k > Len(links) THEN ms
    ELSE LET link == links[k]
         IN  IF ms[link].ino = ms[inode].ino /\ ms[link].dev = ms[inode].dev
             THEN FixLinks([ms EXCEPT ![link].filepos = ms[inode].filepos,
                                      ![link].size = ms[inode].size,
                                      ![link].nlink = 1],
                           inode, links, k + 1)
             ELSE FixLinks(ms, inode, links, k + 1)

\* The outer loop of _fix_hardlinks, line 476, from the k-th inode on; the
\* list of links is built anew for each inode.
RECURSIVE FixInodes(_, _, _)
FixInodes(ms, inodes, k) ==
    IF k > Len(inodes) THEN ms
    ELSE FixInodes(FixLinks(ms, inodes[k], WithoutData(ms), 1), inodes, k + 1)

_fix_hardlinks(ms) == FixInodes(ms, WithData(ms), 1)

\* A faulty filter that keeps every entry (C1 must tell it apart).
KeepsAll(name) == TRUE

\* CpioFile.__init__, line 448: whether the entry read is kept as a member.
Keeps(name) == name # DOT

\* CpioFile.__init__, line 454: whether the hardlink pass runs.
FixesHardlinks(fmt) == fmt \in {NEW_MAGIC, CRC_MAGIC}

\* CpioFile.__init__, lines 443-455: one turn of the scan loop.  The entry
\* read is the trailer (the loop ends, the hardlink pass follows), or '.'
\* (dropped), or a member (appended); an exception ends the constructor.
ScanRecord ==
    /\ pc = "scan"
    /\ \E r \in {from_fileobj(stream, fpos)} :
           /\ fpos' = r.pos
           /\ last' = Call("__init__", r.status, r.arg, 0, 0, None, <<>>)
           /\ IF r.status # "ok"
              THEN /\ pc' = "failed"
                   /\ UNCHANGED members
              ELSE IF r.e.name = TRAILER
              THEN /\ pc' = "open"
                   /\ members' = IF FixesHardlinks(format)
                                 THEN _fix_hardlinks(members)
                                 ELSE members
              ELSE /\ pc' = "scan"
                   /\ members' = IF Keeps(r.e.name)
                                 THEN Append(members, r.e)
                                 ELSE members
    /\ UNCHANGED <<stream, mode, format, fileobj, input, asked, disk>>

\* ------------------------------------------------- read, seek and tell
SEEK_SET == 0
SEEK_CUR == 1
SEEK_END == 2

\* A faulty read that trusts the stream to be where the member left it (C8
\* must tell it apart).
Reposition_stale(pos, target) == pos

\* read, lines 358-359: the stream is moved to the member's cursor when it
\* is elsewhere.
Reposition(pos, target) == IF pos # target THEN target ELSE pos

\* CpioEntry.read(n) of entry e, the stream s being at pos:
\* [status, data, pos, position], the bytes returned, the stream position and
\* the entry's cursor afterwards.  A filepos of None cannot be added to.
read(e, n, s, pos) ==
    LET Out(status, data, p, c) ==
            [status |-> status, data |-> data, pos |-> p, position |-> c]
        at   == Reposition(pos, e.filepos + e.position)
        left == e.size - e.position
        data == IF n < 0 \/ n >= left THEN Read(s, at, left) ELSE Read(s, at, n)
    IN  IF ~S_ISREG(e.mode)
        THEN Out("UnsupportedOperation", <<>>, pos, e.position)
        ELSE IF e.filepos = None
        THEN Out("TypeError", <<>>, pos, e.position)
        ELSE IF at = e.filepos + e.size
        THEN Out("ok", <<>>, at, e.position)
        ELSE Out("ok", data, at + Len(data), e.position + Len(data))

\* A faulty clamp with no lower end (C7 must tell it apart).
ClampAbove(position, size) == Min(position, size)

\* seek, line 395
Clamp(position, size) == Min(Max(0, position), size)

\* CpioEntry.seek(offset, whence) of a regular file e: the new cursor.
seek(e, offset, whence) ==
    Clamp(IF whence = SEEK_SET THEN offset
          ELSE IF whence = SEEK_CUR THEN e.position + offset
          ELSE IF whence = SEEK_END THEN e.position - offset
          ELSE e.position,
          e.size)

\* CpioEntry.tell() of a regular file e.
tell(e) == e.position

\* The integer arguments tried: offsets and lengths from -MaxOffset (or -1)
\* to MaxOffset, beyond every member's size.
MaxOffset == 4
Offsets == (0 - MaxOffset)..MaxOffset
Lengths == (0 - 1)..MaxOffset
Whences == {SEEK_SET, SEEK_CUR, SEEK_END}

\* member.read(n), on any member of an archive that was opened.
MemberRead ==
    /\ pc = "open"
    /\ \E m \in 1..Len(members), n \in Lengths :
          \E r \in {read(members[m], n, stream, fpos)} :
              /\ fpos' = r.pos
              /\ members' = [members EXCEPT ![m].position = r.position]
              /\ last' = Call("read", r.status, <<>>, m, n, None, r.data)
    /\ UNCHANGED <<stream, mode, format, fileobj, pc, input, asked, disk>>

\* member.seek(offset, whence)
MemberSeek ==
    /\ pc = "open"
    /\ \E m \in 1..Len(members), offset \in Offsets, whence \in Whences :
          IF S_ISREG(members[m].mode)
          THEN \E c \in {seek(members[m], offset, whence)} :
                   /\ members' = [members EXCEPT ![m].position = c]
                   /\ last' = Result("seek", "ok", <<>>, m, offset, whence,
                                     c, <<>>)
          ELSE /\ last' = Result("seek", "UnsupportedOperation", <<>>, m,
                                 offset, whence, None, <<>>)
               /\ UNCHANGED members
    /\ UNCHANGED <<stream, fpos, mode, format, fileobj, pc, input, asked, disk>>

\* member.tell()
MemberTell ==
    /\ pc = "open"
    /\ \E m \in 1..Len(members) :
          last' = IF S_ISREG(members[m].mode)
                  THEN Call("tell", "ok", <<>>, m, 0, tell(members[m]), <<>>)
                  ELSE Call("tell", "UnsupportedOperation", <<>>, m, 0, None,
                            <<>>)
    /\ UNCHANGED <<stream, fpos, mode, format, fileobj, members, pc, input, asked, disk>>

\* ------------------------------------------------------ CpioFile methods
\* CpioFile.close: nothing when already closed; otherwise flush() and the
\* release of the file object.  (The lines that would write a trailer to a
\* writable archive are commented out, and flush writes none.)
Close ==
    /\ pc = "open"
    /\ fileobj' = "None"
    /\ last' = Call("close", "ok", <<>>, 0, 0, None, <<>>)
    /\ UNCHANGED <<stream, fpos, mode, format, members, pc, input, asked,
                   disk>>

\* CpioFile.flush: self.fileobj.flush(), which None does not have.
Flush ==
    /\ pc = "open"
    /\ last' = Call("flush",
                    IF fileobj = "None" THEN "AttributeError" ELSE "ok",
                    <<>>, 0, 0, None, <<>>)
    /\ UNCHANGED <<stream, fpos, mode, format, fileobj, members, pc, input,
                   asked, disk>>

\* The names of members ms[i..], each followed by a NUL byte.
RECURSIVE Names(_, _)
Names(ms, i) ==
    IF i > Len(ms) THEN <<>> ELSE ms[i].name \o <<0>> \o Names(ms, i + 1)

\* CpioFile.namelist: the members' names; the file object is not used.
Namelist ==
    /\ pc = "open"
    /\ last' = Call("namelist", "ok", <<>>, 0, 0, Len(members),
                    Names(members, 1))
    /\ UNCHANGED <<stream, fpos, mode, format, fileobj, members, pc, input,
                   asked, disk>>

\* CpioFile.__iter__: an iterator over the members; the file object is not
\* used.
Iter ==
    /\ pc = "open"
    /\ last' = Call("__iter__", "ok", <<>>, 0, 0, Len(members), <<>>)
    /\ UNCHANGED <<stream, fpos, mode, format, fileobj, members, pc, input,
                   asked, disk>>

\* CpioFile.readable: self.fileobj.readable(), 1 for a file opened 'rb'.
Readable ==
    /\ pc = "open"
    /\ last' = IF fileobj = "None"
               THEN Call("readable", "AttributeError", <<>>, 0, 0, None, <<>>)
               ELSE Call("readable", "ok", <<>>, 0, 0,
                         IF mode = "rb" THEN 1 ELSE 0, <<>>)
    /\ UNCHANGED <<stream, fpos, mode, format, fileobj, members, pc, input,
                   asked, disk>>

\* CpioFile.fileno: self.fileobj.fileno(), the descriptor (here 3).
Fileno ==
    /\ pc = "open"
    /\ last' = IF fileobj = "None"
               THEN Call("fileno", "AttributeError", <<>>, 0, 0, None, <<>>)
               ELSE Call("fileno", "ok", <<>>, 0, 0, 3, <<>>)
    /\ UNCHANGED <<stream, fpos, mode, format, fileobj, members, pc, input,
                   asked, disk>>

\* CpioFile.extract(member, path) for a member given as a CpioEntry, ms[m],
\* under a destination directory that exists: [status, ms, pos, disk].
\* A directory, a symbolic link or a node that exists already cannot be made
\* again; a file is opened for writing, the member rewound and read to its
\* end.  path = None cannot be joined with a relative name.
extract(ms, m, path, s, pos, d) ==
    LET e == ms[m]
        Out(status, ms1, p, d1) ==
            [status |-> status, ms |-> ms1, pos |-> p, disk |-> d1]
        there == \E x \in d : x.name = e.name
        r == read([e EXCEPT !.position = seek(e, 0, SEEK_SET)], -1, s, pos)
    IN  IF path = "None"
        THEN Out("AttributeError", ms, pos, d)
        ELSE IF S_ISREG(e.mode)
        THEN IF \E x \in d : x.name = e.name /\ ~S_ISREG(x.mode)
             THEN Out("IOError", ms, pos, d)
             ELSE IF r.status # "ok"
             THEN Out(r.status, [ms EXCEPT ![m].position = 0], r.pos,
                      {x \in d : x.name # e.name}
                      \cup {[name |-> e.name, mode |-> e.mode, data |-> <<>>]})
             ELSE Out("ok", [ms EXCEPT ![m].position = r.position], r.pos,
                      {x \in d : x.name # e.name}
                      \cup {[name |-> e.name, mode |-> e.mode,
                             data |-> r.data]})
        ELSE IF there
        THEN Out("OSError", ms, pos, d)
        ELSE IF S_ISDIR(e.mode)
        THEN Out("ok", ms, pos,
                 d \cup {[name |-> e.name, mode |-> e.mode, data |-> <<>>]})
        ELSE IF S_ISLNK(e.mode) /\ e.target = <<>>
        THEN Out("TypeError", ms, pos, d)
        ELSE IF S_ISLNK(e.mode)
        THEN Out("ok", ms, pos,
                 d \cup {[name |-> e.name, mode |-> e.mode,
                          data |-> e.target[1]]})
        ELSE Out("ok", ms, pos,
                 d \cup {[name |-> e.name, mode |-> e.mode, data |-> <<>>]})

\* CpioFile.extractall(path): extract each member in turn, from member m on;
\* the first exception ends it.
RECURSIVE extractall(_, _, _, _, _, _)
extractall(ms, m, path, s, pos, d) ==
    IF m > Len(ms)
    THEN [status |-> "ok", ms |-> ms, pos |-> pos, disk |-> d]
    ELSE LET Next1(r) ==
                 IF r.status # "ok" THEN r
                 ELSE extractall(r.ms, m + 1, path, s, r.pos, r.disk)
         IN  Next1(extract(ms, m, path, s, pos, d))

\* The destination directories tried: the default of extractall, and a
\* directory.
Paths == {"None", "."}

Extract ==
    /\ pc = "open"
    /\ \E m \in 1..Len(members), path \in Paths :
          \E r \in {extract(members, m, path, stream, fpos, disk)} :
              /\ members' = r.ms
              /\ fpos' = r.pos
              /\ disk' = r.disk
              /\ last' = Call("extract", r.status, <<>>, m, 0, None, <<>>)
    /\ UNCHANGED <<stream, mode, format, fileobj, pc, input, asked>>

ExtractAll ==
    /\ pc = "open"
    /\ \E path \in Paths :
          \E r \in {extractall(members, 1, path, stream, fpos, disk)} :
              /\ members' = r.ms
              /\ fpos' = r.pos
              /\ disk' = r.disk
              /\ last' = Call("extractall", r.status, <<>>, 0, 0, None, <<>>)
    /\ UNCHANGED <<stream, mode, format, fileobj, pc, input, asked>>

\* CpioFile.write(path) of the filesystem object p, the archive holding ms:
\* [status, ms, out], out the bytes written.  The entry is filled from
\* os.lstat(path); then line 602 reads self.mode, an attribute CpioFile does
\* not have, so the call ends there, before any byte is written and before
\* the entry is appended.
write(ms, p) == [status |-> "AttributeError", ms |-> ms, out |-> <<>>]

\* The most calls of write in a run.
MaxWrites == 2

\* The filesystem objects write is called on: a file, a directory, a
\* symbolic link (the first three of the pool below).
WritePaths == 1..3

Write ==
    /\ pc = "open"
    /\ Len(asked) < MaxWrites
    /\ \E p \in WritePaths :
          \E r \in {write(members, p)} :
              /\ members' = r.ms
              /\ stream' = stream \o r.out
              /\ fpos' = fpos + Len(r.out)
              /\ asked' = Append(asked, p)
              /\ last' = Call("write", r.status, <<>>, 0, p, None, <<>>)
    /\ UNCHANGED <<mode, format, fileobj, pc, input, disk>>

\* entry.to_fileobj(format, data) on an entry the caller built, its file
\* object at the end of what was written.
ToFileobj ==
    /\ pc = "entry"
    /\ \E w \in {to_fileobj(members[1], format, input.data, input.enc[2])} :
           /\ stream' = stream \o w.head \o w.body
           /\ fpos' = Len(stream) + Len(w.head) + Len(w.body)
           /\ members' = IF w.status = "ok" /\ Len(input.data) > 0
                         THEN [members EXCEPT
                                  ![1].filepos = Len(stream) + Len(w.head)]
                         ELSE members
           /\ last' = Result("to_fileobj", w.status, <<>>, 1, Len(w.head), 0,
                             Len(w.body), <<>>)
    /\ pc' = "written"
    /\ UNCHANGED <<mode, format, fileobj, input, asked, disk>>

\* ------------------------------------------------------------ the inputs
\* File types and permissions: 0100644, 040755, 0120777.
REG == 32768 + 420
DIR == 16384 + 493
LNK == 40960 + 511

\* The objects an input archive is made of: the attributes of each (as the
\* header stores them) and its data.  5 and 6 are two names of one inode: 5
\* carries the data, 6 is the empty placeholder.
Pool ==
    LET obj(name, md, ino, nlink, data) ==
            [e |-> [CpioEntry EXCEPT !.name = name, !.mode = md,
                                     !.ino = Big(ino), !.nlink = nlink,
                                     !.dev = makedev(8, 1), !.uid = 1000,
                                     !.gid = 100, !.mtime = 100000,
                                     !.size = Len(data), !.check = Big(0)],
             data |-> data]
    IN  <<obj(<<97>>, REG, 1, 1, <<104, 105>>),
          obj(<<100>>, DIR, 2, 2, <<>>),
          obj(<<108>>, LNK, 3, 1, <<97>>),
          obj(DOT, DIR, 4, 2, <<>>),
          obj(<<104>>, REG, 5, 2, <<97, 98, 99>>),
          obj(<<103>>, REG, 5, 2, <<>>),
          obj(<<46, 46>>, DIR, 6, 2, <<>>)>>

\* The formats an archive comes in, the old binary one in either byte order.
Encodings ==
    {<<NEW_MAGIC, "<">>, <<CRC_MAGIC, "<">>, <<OLD_MAGIC, "<">>,
     <<BIN_FORMAT, "<">>, <<BIN_FORMAT, ">">>}

Formats == {NO_FORMAT, NEW_MAGIC, CRC_MAGIC, OLD_MAGIC, BIN_FORMAT}

\* Object p as the record of an archive in format fmt: the New CRC format
\* stores the data's sum for a regular file, the others store none.
Record(p, fmt) ==
    IF fmt = CRC_MAGIC /\ S_ISREG(Pool[p].e.mode)
    THEN [Pool[p].e EXCEPT !.check = checksum32(Pool[p].data)]
    ELSE Pool[p].e

Written(w) == w.head \o w.body

\* The bytes of the records of objects recs[1..n], in format enc.
RECURSIVE Records(_, _, _)
Records(recs, n, enc) ==
    IF n = 0 THEN <<>>
    ELSE Records(recs, n - 1, enc)
         \o Written(to_fileobj(Record(recs[n], enc[1]), enc[1],
                               Pool[recs[n]].data, enc[2]))

\* The trailer record: a fresh entry (its name is 'TRAILER!!!') with a sum
\* of 0 and one link.
Trailer(enc) ==
    Written(to_fileobj([CpioEntry EXCEPT !.check = Big(0), !.nlink = 1],
                       enc[1], <<>>, enc[2]))

\* Where record k starts (k = Len(recs) + 1: the trailer), and where its
\* data starts.
StartOf(recs, k, enc) == Len(Records(recs, k - 1, enc))
DataOf(recs, k, enc) ==
    StartOf(recs, k, enc)
    + Len(to_fileobj(Record(recs[k], enc[1]), enc[1],
                     Pool[recs[k]].data, enc[2]).head)

\* How far into a record a truncated stream ends: at its first byte, inside
\* the magic, and inside the rest of the header.
CutOffsets == {0, 1, 3, 20}

\* What is done to the archive before it is read: nothing; the first data
\* byte of record k is changed; the stream ends d bytes into record k.
NoDamage == [kind |-> "none", k |-> 0, d |-> 0]
Damages(recs) ==
    {NoDamage}
    \cup {[kind |-> "flip", k |-> k, d |-> 0] :
             k \in {j \in 1..Len(recs) : Len(Pool[recs[j]].data) > 0}}
    \cup {[kind |-> "cut", k |-> k, d |-> d] :
             k \in 1..(Len(recs) + 1), d \in CutOffsets}

Damaged(recs, enc, dmg) ==
    LET whole == Records(recs, Len(recs), enc) \o Trailer(enc)
    IN  IF dmg.kind = "flip"
        THEN [whole EXCEPT ![DataOf(recs, dmg.k, enc) + 1] = (@ + 1) % 256]
        ELSE IF dmg.kind = "cut"
        THEN SubSeq(whole, 1, StartOf(recs, dmg.k, enc) + dmg.d)
        ELSE whole

\* The lists of at most MaxRecs distinct objects, in the pool's order or in
\* the reverse of it.
Inputs ==
    {r \in UNION {[1..n -> 1..Len(Pool)] : n \in 0..MaxRecs} :
        \/ \A i, j \in 1..Len(r) : i < j => r[i] < r[j]
        \/ \A i, j \in 1..Len(r) : i < j => r[i] > r[j]}

\* What a run is given: the objects of the archive it reads, the archive's
\* format and byte order, the damage done to it; the data handed to
\* to_fileobj.
Given(recs, enc, dmg, data) ==
    [recs |-> recs, enc |-> enc, dmg |-> dmg, data |-> data]

\* CpioFile(path, 'rb', format=fmt) on a file of the given bytes: the state
\* as __init__ enters its scan.
OpenForRead(bytes, fmt, given) ==
    /\ stream = bytes
    /\ fpos = 0
    /\ mode = "rb"
    /\ format = fmt
    /\ fileobj = "open"
    /\ members = <<>>
    /\ pc = "scan"
    /\ last = [op |-> "open", status |-> "ok", arg |-> <<>>, m |-> 0, n |-> 0,
               whence |-> 0, ret |-> None, data |-> <<>>, was |-> "open"]
    /\ input = given
    /\ asked = <<>>
    /\ disk = {}

\* An archive of any format, whole with any format argument, or damaged.
Init ==
    \E recs \in Inputs, enc \in Encodings :
        \E dmg \in Damages(recs), fmt \in Formats :
            /\ dmg.kind # "none" => fmt = NO_FORMAT
            /\ OpenForRead(Damaged(recs, enc, dmg), fmt,
                           Given(recs, enc, dmg, <<>>))

Next == ScanRecord

Spec == Init /\ [][Next]_vars

\* ------------------------------------------------------ the scan's claims
Whole == input.dmg.kind = "none"
Obj(k) == Pool[input.recs[k]]
\* The object a member was read from: the one of its name.
Origin(m) == CHOOSE k \in 1..Len(input.recs) : Obj(k).e.name = m.name
HeaderErrors == {"HeaderError", "ChecksumError", "FormatError"}

C2_TruncatedRaisesHeaderError ==
    (input.dmg.kind = "cut" /\ pc # "scan") =>
        (pc = "failed" /\ last.status \in HeaderErrors)

\* C3: when one data byte of a regular file's record was changed, reading the
\* archive raises ChecksumError carrying that member's name if the archive is
\* New CRC, and reads it to the end with no error if it is New ASCII.
C3_Checksum ==
    (/\ input.dmg.kind = "flip"
     /\ S_ISREG(Obj(input.dmg.k).e.mode)
     /\ pc # "scan") =>
        /\ input.enc[1] = CRC_MAGIC =>
              /\ pc = "failed"
              /\ last.status = "ChecksumError"
              /\ last.arg = Obj(input.dmg.k).e.name
        /\ input.enc[1] = NEW_MAGIC =>
              /\ pc = "open"
              /\ last.status = "ok"
              /\ \E i \in 1..Len(members) :
                    members[i].name = Obj(input.dmg.k).e.name

\* The second record of a New CRC archive, a regular file, had a data byte
\* changed, and the scan raised ChecksumError with its name after keeping the
\* first.
C3_Witness ==
    /\ input.dmg.kind = "flip" /\ input.dmg.k = 2
    /\ input.enc[1] = CRC_MAGIC
    /\ S_ISREG(Obj(2).e.mode)
    /\ pc = "failed" /\ last.status = "ChecksumError"
    /\ last.arg = Obj(2).e.name
    /\ Len(members) = 1

\* C4: once a whole archive is open, of two members that are not directories,
\* share (dev, ino) and were both stored with link count 2, one with data and
\* one empty, the empty one has the other's data offset and size and link
\* count 1, whatever format argument the caller passed.
C4_HardlinksResolved ==
    (Whole /\ pc = "open") =>
        \A i, j \in 1..Len(members) :
            LET a == Obj(Origin(members[i])).e
                b == Obj(Origin(members[j])).e
            IN  (/\ ~S_ISDIR(a.mode) /\ ~S_ISDIR(b.mode)
                 /\ a.dev = b.dev /\ a.ino = b.ino
                 /\ a.nlink = 2 /\ b.nlink = 2
                 /\ a.size > 0 /\ b.size = 0) =>
                    /\ members[j].filepos = members[i].filepos
                    /\ members[j].size = members[i].size
                    /\ members[j].nlink = 1

\* ------------------------------------------------- the members' cursors
\* The archives whose members are read: two names of one inode in either
\* order, read with and without the hardlink pass; two files; a symbolic link
\* and a file, without data padding.
MemberInputs ==
    {[recs |-> <<5, 6>>, enc |-> <<NEW_MAGIC, "<">>, fmt |-> NEW_MAGIC],
     [recs |-> <<6, 5>>, enc |-> <<CRC_MAGIC, "<">>, fmt |-> CRC_MAGIC],
     [recs |-> <<5, 6>>, enc |-> <<NEW_MAGIC, "<">>, fmt |-> NO_FORMAT],
     [recs |-> <<1, 5>>, enc |-> <<NEW_MAGIC, "<">>, fmt |-> NO_FORMAT],
     [recs |-> <<3, 1>>, enc |-> <<OLD_MAGIC, "<">>, fmt |-> NO_FORMAT]}

InitMember ==
    \E i \in MemberInputs :
        OpenForRead(Damaged(i.recs, i.enc, NoDamage), i.fmt,
                    Given(i.recs, i.enc, NoDamage, <<>>))

NextMember == ScanRecord \/ MemberRead \/ MemberSeek \/ MemberTell

SpecMember == InitMember /\ [][NextMember]_vars

\* C7: the cursor of a regular file is always within 0..size; seek returns
\* the new cursor; tell returns the cursor and changes nothing.
C7_Cursor ==
    [][/\ \A m \in 1..Len(members') :
             S_ISREG(members'[m].mode) =>
                 (0 <= members'[m].position
                  /\ members'[m].position <= members'[m].size)
       /\ (last'.op \in {"seek", "tell"} /\ last'.status = "ok") =>
             last'.ret = members'[last'.m].position
       /\ last'.op = "tell" => (members' = members /\ fpos' = fpos)]_vars

\* A seek to before the start and one to beyond the end were clamped, on a
\* member whose cursor another call had moved.
C7_Witness ==
    /\ last.op = "seek" /\ last.status = "ok" /\ last.whence = SEEK_CUR
    /\ last.n = MaxOffset
    /\ last.ret = members[last.m].size
    /\ members[last.m].size = 3

\* The bytes of the file a member names: its object's data, or for an empty
\* placeholder that was given its inode's data, that object's.
Content(e) ==
    IF e.size = Len(Obj(Origin(e)).data) THEN Obj(Origin(e)).data
    ELSE LET k == CHOOSE k \in 1..Len(input.recs) :
                      /\ Obj(k).e.ino = e.ino
                      /\ Len(Obj(k).data) = e.size
         IN  Obj(k).data

\* C8: whatever calls came before on whichever members, read(n) on a regular
\* file m returns the stream bytes from data offset + cursor on, as many as n
\* allows and the data has (all that is left when n < 0), which are the bytes
\* of the member's own data; it moves m's cursor by that many and no other.
C8_InterleavedReads ==
    [][(last'.op = "read" /\ last'.status = "ok") =>
        LET m == last'.m
            e == members[m]
            n == last'.n
            k == IF n < 0 THEN e.size - e.position
                 ELSE Min(n, e.size - e.position)
        IN  /\ last'.data = SubSeq(stream, e.filepos + e.position + 1,
                                   e.filepos + e.position + k)
            /\ last'.data = SubSeq(Content(e), e.position + 1, e.position + k)
            /\ members' = [members EXCEPT ![m].position = e.position + k]
            /\ stream' = stream]_vars

\* A read returned bytes from the middle of one member's data while the
\* stream was left inside another member's data by a read on that one.
C8_Witness ==
    /\ last.op = "read" /\ last.status = "ok" /\ Len(last.data) > 0
    /\ \E m \in 1..Len(members) :
          /\ m # last.m
          /\ members[m].position > 0
          /\ members[m].filepos # members[last.m].filepos
    /\ members[last.m].position > Len(last.data)

\* ------------------------------------------------------------ the writer
\* The longest name and the longest data buffer written.
MaxName == 4
MaxData == 4

\* 2^32, an inode number of a 64-bit filesystem.
BigIno == [hi |-> 65536, lo |-> 0]

\* An entry the caller built, with a name of any length, data of any length
\* (size is the data's length), a small or a large inode number, a sum or
\* none, and to_fileobj about to be called with any format.
InitCodec ==
    \E nl \in 0..MaxName, dl \in 0..MaxData, enc \in Encodings \cup {<<NO_FORMAT, "<">>} :
        \E ino \in {Big(1), BigIno}, chk \in {NoneBig, Big(0)} :
            /\ stream = <<>>
            /\ fpos = 0
            /\ mode = "wb"
            /\ format = enc[1]
            /\ fileobj = "open"
            /\ members = <<[CpioEntry EXCEPT !.name = Fill(nl, 97),
                                            !.mode = IF dl > 0 THEN REG ELSE DIR,
                                            !.nlink = 1, !.ino = ino,
                                            !.mtime = 100000, !.size = dl,
                                            !.check = chk]>>
            /\ pc = "entry"
            /\ last = [op |-> "open", status |-> "ok", arg |-> <<>>, m |-> 0,
                       n |-> 0, whence |-> 0, ret |-> None, data |-> <<>>,
                       was |-> "open"]
            /\ input = Given(<<>>, enc, NoDamage, Fill(dl, 104))
            /\ asked = <<>>
            /\ disk = {}

NextCodec == ToFileobj

SpecCodec == InitCodec /\ [][NextCodec]_vars

\* The alignment of header + name + padding and of data + padding.
Modulus(fmt) ==
    IF fmt \in {NEW_MAGIC, CRC_MAGIC} THEN 4
    ELSE IF fmt = BIN_FORMAT THEN 2
    ELSE 1

\* C6: of every record to_fileobj writes, the bytes of header + name + NUL +
\* padding and the bytes of data + padding are each a multiple of the
\* format's modulus.
C6_Padding ==
    (last.op = "to_fileobj" /\ last.status = "ok") =>
        /\ last.n % Modulus(format) = 0
        /\ last.ret % Modulus(format) = 0

\* ------------------------------------------------------------ the lifecycle
\* CpioFile(path, 'wb', format=fmt): a file opened for writing is not
\* readable, so __init__ reads nothing.
OpenForWrite(fmt) ==
    /\ stream = <<>>
    /\ fpos = 0
    /\ mode = "wb"
    /\ format = fmt
    /\ fileobj = "open"
    /\ members = <<>>
    /\ pc = "open"
    /\ last = [op |-> "open", status |-> "ok", arg |-> <<>>, m |-> 0, n |-> 0,
               whence |-> 0, ret |-> None, data |-> <<>>, was |-> "open"]
    /\ input = Given(<<>>, <<fmt, "<">>, NoDamage, <<>>)
    /\ asked = <<>>
    /\ disk = {}

\* The archives opened for reading: a directory, a file and a symbolic link;
\* two names of one inode.
LifeInputs ==
    {[recs |-> <<2, 1, 3>>, enc |-> <<CRC_MAGIC, "<">>, fmt |-> NO_FORMAT],
     [recs |-> <<5, 6>>, enc |-> <<NEW_MAGIC, "<">>, fmt |-> NEW_MAGIC]}

InitLife ==
    \/ \E i \in LifeInputs :
          OpenForRead(Damaged(i.recs, i.enc, NoDamage), i.fmt,
                      Given(i.recs, i.enc, NoDamage, <<>>))
    \/ \E fmt \in {CRC_MAGIC, NEW_MAGIC} : OpenForWrite(fmt)

NextLife ==
    \/ ScanRecord
    \/ Close
    \/ Flush
    \/ Namelist
    \/ Iter
    \/ Readable
    \/ Fileno
    \/ Extract
    \/ ExtractAll
    \/ Write

SpecLife == InitLife /\ [][NextLife]_vars

\* The catalog __init__ builds from stream s, read from pos on, ms being the
\* members so far (lines 443-452): [status, ms].
RECURSIVE Catalog(_, _, _)
Catalog(s, pos, ms) ==
    LET Turn(r) ==
            IF r.status # "ok" THEN [status |-> r.status, ms |-> ms]
            ELSE IF r.e.name = TRAILER THEN [status |-> "ok", ms |-> ms]
            ELSE Catalog(s, r.pos,
                         IF Keeps(r.e.name) THEN Append(ms, r.e) ELSE ms)
    IN  Turn(from_fileobj(s, pos))

\* Byte strings in lexical order.
RECURSIVE Before(_, _)
Before(a, b) ==
    IF Len(b) = 0 THEN FALSE
    ELSE IF Len(a) = 0 THEN TRUE
    ELSE IF a[1] # b[1] THEN a[1] < b[1]
    ELSE Before(Tail(a), Tail(b))

\* The data of entry e read from stream s.
DataIn(s, e) ==
    IF S_ISREG(e.mode) THEN SubSeq(s, e.filepos + 1, e.filepos + e.size)
    ELSE IF S_ISLNK(e.mode) /\ e.target # <<>> THEN e.target[1]
    ELSE <<>>

\* C5: once a writable New CRC archive that distinct files, directories and
\* symbolic links were written to is closed, reading its bytes yields one
\* member for each, in the order of their names, with the name, mode, uid,
\* gid, mtime, size and data that were written.
C5_RoundTrip ==
    (/\ mode = "wb" /\ format = CRC_MAGIC
     /\ last.op = "close" /\ last.was = "open"
     /\ Len(asked) > 0
     /\ \A i, j \in 1..Len(asked) : asked[i] = asked[j] => i = j) =>
        \E r \in {Catalog(stream, 0, <<>>)} :
            /\ r.status = "ok"
            /\ Len(r.ms) = Len(asked)
            /\ \A i, j \in 1..Len(r.ms) :
                  i < j => Before(r.ms[i].name, r.ms[j].name)
            /\ \A k \in 1..Len(asked) :
                  \E i \in 1..Len(r.ms) :
                      LET e == r.ms[i]
                          o == Pool[asked[k]]
                      IN  /\ e.name = o.e.name /\ e.mode = o.e.mode
                          /\ e.uid = o.e.uid /\ e.gid = o.e.gid
                          /\ e.mtime = o.e.mtime /\ e.size = o.e.size
                          /\ DataIn(stream, e) = o.data

\* C9: when close() has closed a writable archive, the stream ends with a
\* trailer record: an entry named 'TRAILER!!!' of size 0, with nothing after
\* it.
C9_TrailerOnClose ==
    (mode = "wb" /\ last.op = "close" /\ last.was = "open") =>
        \E pos \in 0..Len(stream) :
            \E r \in {from_fileobj(stream, pos)} :
                /\ r.status = "ok"
                /\ r.e.name = TRAILER
                /\ r.e.size = 0
                /\ r.pos = Len(stream)

\* C10: every call of iteration, namelist, extract, extractall, write, flush,
\* readable or fileno made after close() released the file object fails.
C10_ClosedOpsFail ==
    (/\ last.was = "None"
     /\ last.op \in {"__iter__", "namelist", "extract", "extractall", "write",
                     "flush", "readable", "fileno"}) =>
        last.status # "ok"

\* ------------------------------------------------------ the scan's position
FIFO == 4096 + 420
CHR == 8192 + 420
BLK == 24576 + 432
SOCK == 49152 + 493

\* A record as an archive may hold it: the entry's attributes and the data
\* that follows its name.
Object(name, md, ino, rdev, data) ==
    [e |-> [CpioEntry EXCEPT !.name = name, !.mode = md, !.ino = Big(ino),
                             !.nlink = 1, !.dev = makedev(8, 1),
                             !.rdev = rdev, !.uid = 1000, !.gid = 100,
                             !.mtime = 100000, !.size = Len(data),
                             !.check = Big(0)],
     data |-> data]

\* Records of every file type, named '.' and '..' among them; a fifo and a
\* block device whose header gives a size, with that many bytes of data.
Nodes ==
    <<Object(<<102>>, REG, 1, 0, <<104, 105>>),
      Object(<<101>>, REG, 2, 0, <<>>),
      Object(<<108>>, LNK, 3, 0, <<97>>),
      Object(<<100>>, DIR, 4, 0, <<>>),
      Object(DOT, DIR, 5, 0, <<>>),
      Object(<<46, 46>>, DIR, 6, 0, <<>>),
      Object(<<112>>, FIFO, 7, 0, <<>>),
      Object(<<99>>, CHR, 8, makedev(1, 3), <<>>),
      Object(<<115>>, SOCK, 9, 0, <<>>),
      Object(<<113>>, FIFO, 10, 0, <<97, 98, 99>>),
      Object(<<98>>, BLK, 11, makedev(8, 0), <<1, 2, 3, 4>>)>>

\* The bytes of the records of nodes ids[1..n], in format enc; the New CRC
\* format stores the data's sum for a regular file.
RECURSIVE NodeRecords(_, _, _)
NodeRecords(ids, n, enc) ==
    IF n = 0 THEN <<>>
    ELSE NodeRecords(ids, n - 1, enc)
         \o Written(to_fileobj(
                IF enc[1] = CRC_MAGIC /\ S_ISREG(Nodes[ids[n]].e.mode)
                THEN [Nodes[ids[n]].e EXCEPT
                         !.check = checksum32(Nodes[ids[n]].data)]
                ELSE Nodes[ids[n]].e,
                enc[1], Nodes[ids[n]].data, enc[2]))

\* The lists of 1 to MaxRecs nodes, in the order above.
NodeInputs ==
    {r \in UNION {[1..n -> 1..Len(Nodes)] : n \in 1..MaxRecs} :
        \A i, j \in 1..Len(r) : i < j => r[i] < r[j]}

\* A whole archive of such records and a trailer, in any format, opened for
\* reading.
InitAlign ==
    \E ids \in NodeInputs, enc \in Encodings :
        OpenForRead(NodeRecords(ids, Len(ids), enc) \o Trailer(enc),
                    NO_FORMAT, Given(ids, enc, NoDamage, <<>>))

NextAlign == ScanRecord

SpecAlign == InitAlign /\ [][NextAlign]_vars

\* The bytes of a header in format fmt.
HeaderSize(fmt) ==
    IF fmt \in {NEW_MAGIC, CRC_MAGIC} THEN 110
    ELSE IF fmt = BIN_FORMAT THEN 26
    ELSE 76

\* The padding after n bytes in format fmt.
Padding(n, fmt) == (Modulus(fmt) - (n % Modulus(fmt))) % Modulus(fmt)

\* C11: whenever the scan has decoded a record, of whatever file type and
\* whether kept or dropped, the stream is at record start + header size +
\* namesize + header padding + size + data padding.
C11_ScanAlignment ==
    [][(pc = "scan" /\ last'.op = "__init__" /\ last'.status = "ok") =>
        \E r \in {from_fileobj(stream, fpos)} :
            fpos' = fpos + HeaderSize(input.enc[1])
                         + (Len(r.e.name) + 1)
                         + Padding(HeaderSize(input.enc[1])
                                   + Len(r.e.name) + 1, input.enc[1])
                         + r.e.size
                         + Padding(r.e.size, input.enc[1])]_vars

====
